---- MODULE Spec2Model ----
(***************************************************************************)
(* A model of go-qstash: the Receiver's HTTP handler (receiver.go) with    *)
(* Message.Ack (qstash.go), and the Publisher (publisher.go) with its      *)
(* retrying transport httpClient (unnamed/part_003).                       *)
(***************************************************************************)
EXTENDS Integers, Sequences, FiniteSets, TLC

\* ------------------------------------------------------------------ bounds
\* how many inbound requests the receiver side holds
NumReqs == 2
\* unix times range over 0..MaxTime; 0 is what the jwt library reads as "absent"
MaxTime == 3
\* the most Ack calls one callback run makes
MaxAcks == 2
\* the largest Retries of a transport
MaxRetries == 3
\* the bits of a time.Duration the model keeps (64 in the program)
DurBits == 4
\* the longest option list given to Publish
MaxOpts == 2
\* Publish calls on one Message
MaxPublishes == 2
\* the longest option list given to NewPublisher
MaxNewOpts == 2
IntBits == 5

\* ------------------------------------------------------- program constants
StatusOK == 200
StatusUnauthorized == 401
StatusUnprocessableEntity == 422
StatusInternalServerError == 500
\* time.Millisecond, in nanoseconds
Millisecond == 1000000

VARIABLES
  \* ---- Receiver (receiver.go) ----
  signingKey,      \* q.signingKey
  nextSigningKey,  \* q.nextSigningKey
  now,             \* time.Now().Unix()
  hasCallback,     \* onReceive != nil
  rpc,             \* per request: position in the handler
  inReq,           \* per request: the inbound *http.Request (headers, body)
  body,            \* per request: the handler's local `body`
  verr,            \* per request: <<result of verify(current), result of verify(next)>>
  m,               \* per request: the handler's local Message
  w,               \* per request: the http.ResponseWriter
  cbCalls,         \* per request: how often onReceive was invoked
  ackCalls,        \* per request: how often the callback called Ack
  \* ---- Publisher (publisher.go) and its transport (part_003) ----
  qurl,            \* q.url
  policy,          \* httpClient's Retries, MinBackOff, MaxBackOff
  pm,              \* the *Message given to Publish
  pm0,             \* that Message as it was when the current Publish was called
  popts,           \* the options given to Publish
  ppc,             \* position in Publish / httpClient.Do
  pubs,            \* Publish calls so far
  req,             \* the *http.Request Publish built
  uuidCalls,       \* calls of uuid.NewV4 so far
  uuidOut,         \* what the latest call of uuid.NewV4 returned
  ti,              \* httpClient.Do's loop counter i
  tret,            \* httpClient.Do's resp, err
  sent,            \* what the latest c.client.Do(req) came back with
  sends,           \* the c.client.Do calls of the current Publish, in order
  sleeps,          \* the time.Sleep calls of the current Publish, in order
  ctxDone,         \* the context given to Publish is cancelled or past its deadline
  perr,            \* what the last Publish returned
  pcall,           \* the method the last Publish was entered through, and its argument
  \* ---- NewPublisher (publisher.go, part_000) ----
  nargs,           \* QSTASH_TOKEN in the environment, and NewPublisher's topic and opts
  npub             \* what NewPublisher returned

rvars == <<signingKey, nextSigningKey, now, hasCallback, rpc, inReq, body, verr, m, w,
           cbCalls, ackCalls>>

pvars == <<qurl, policy, pm, pm0, popts, ppc, pubs, req, uuidCalls, uuidOut, ti, tret, sent,
           sends, sleeps, ctxDone, perr, pcall>>

nvars == <<nargs, npub>>

vars == <<rvars, pvars, nvars>>

Reqs == 1..NumReqs

\* ---------------------------------------------------------------- strings
\* Header values that the code parses are sequences of characters.
Digits == <<"0", "1", "2", "3", "4", "5", "6", "7", "8", "9">>

DigitVal(c) == (CHOOSE i \in 1..10 : Digits[i] = c) - 1

IsDigit(c) == \E i \in 1..10 : Digits[i] = c

RECURSIVE AtoiDigits(_)
AtoiDigits(s) ==
  IF s = <<>> THEN 0
  ELSE 10 * AtoiDigits(SubSeq(s, 1, Len(s) - 1)) + DigitVal(s[Len(s)])

\* Go's int is a signed integer; the model keeps IntBits bits of it
MaxInt == (2 ^ (IntBits - 1)) - 1

MinInt == -(2 ^ (IntBits - 1))

\* the digits of a decimal numeral, after its sign if it has one
Unsigned(s) == IF s # <<>> /\ s[1] \in {"+", "-"} THEN Tail(s) ELSE s

\* a decimal numeral: an optional sign and one digit or more
IsNumeral(s) == Unsigned(s) # <<>> /\ \A i \in 1..Len(Unsigned(s)) : IsDigit(Unsigned(s)[i])

\* strconv.Atoi with the error dropped (receiver.go:63): 0 on a syntax error,
\* and on a range error the largest or the smallest int
Atoi(s) ==
  IF ~IsNumeral(s) THEN 0
  ELSE LET n == AtoiDigits(Unsigned(s))
       IN IF s[1] = "-"
          THEN (IF n > -MinInt THEN MinInt ELSE -n)
          ELSE (IF n > MaxInt THEN MaxInt ELSE n)

\* ----------------------------------------------------------------- tokens
Keys == {"k1", "k2", "k3"}
Bodies == {"hello", "other"}
NoErr == "nil"

\* base64.URLEncoding.EncodeToString(sha256.Sum256(body)), receiver.go:100-101
BodyHash(b) == <<"b64url-sha256", b>>

\* A signed token: its alg header, the key that signed it, and its claims.
\* iss "", exp 0 and nbf 0 stand for an absent claim.
JWTs == [malformed : {FALSE}, alg : {"HS256", "RS256"}, key : Keys,
         iss : {"Upstash", "Other", ""}, exp : 0..MaxTime, nbf : 0..MaxTime,
         bodyClaim : {BodyHash(b) : b \in Bodies}]

Garbage == [malformed |-> TRUE, alg |-> "HS256", key |-> "k3", iss |-> "", exp |-> 0,
            nbf |-> 0, bodyClaim |-> BodyHash("other")]

Tokens == JWTs \cup {Garbage}

\* jwt verifyExp / verifyNbf: a zero time is an absent claim
VerifyExpiresAt(tok, cmp, required) == IF tok.exp = 0 THEN ~required ELSE cmp <= tok.exp

VerifyNotBefore(tok, cmp, required) == IF tok.nbf = 0 THEN ~required ELSE cmp >= tok.nbf

VerifyIssuer(tok, iss, required) == IF tok.iss = "" THEN ~required ELSE tok.iss = iss

\* jwt.Parse with the key function of receiver.go:80-85: the error, or NoErr
JwtParse(tok, key, t) ==
  IF tok.malformed THEN "token contains an invalid number of segments"
  ELSE IF tok.alg # "HS256" THEN "unexpected signing method"
  ELSE IF tok.key # key THEN "signature is invalid"
  ELSE IF ~VerifyNotBefore(tok, t, FALSE) THEN "Token is not valid yet"
  ELSE IF ~VerifyExpiresAt(tok, t, FALSE) THEN "Token is expired"
  ELSE NoErr

\* a verify that stops after the claims and never compares the body hash
verifyClaimsOnly(b, tok, key, t) ==
  LET parseErr == JwtParse(tok, key, t) IN
  IF parseErr # NoErr THEN <<"could not parse jwt", parseErr>>
  ELSE IF ~VerifyIssuer(tok, "Upstash", TRUE) THEN <<"invalid issuer">>
  ELSE IF ~VerifyExpiresAt(tok, t, TRUE) THEN <<"token has expired">>
  ELSE IF ~VerifyNotBefore(tok, t, TRUE) THEN <<"token is not valid yet">>
  ELSE <<NoErr>>

\* Receiver.verify, receiver.go:78-105
verify(b, tok, key, t) ==
  LET parseErr == JwtParse(tok, key, t) IN
  IF parseErr # NoErr THEN <<"could not parse jwt", parseErr>>
  ELSE IF ~VerifyIssuer(tok, "Upstash", TRUE) THEN <<"invalid issuer">>
  ELSE IF ~VerifyExpiresAt(tok, t, TRUE) THEN <<"token has expired">>
  ELSE IF ~VerifyNotBefore(tok, t, TRUE) THEN <<"token is not valid yet">>
  ELSE IF tok.bodyClaim # BodyHash(b) THEN <<"body hash does not match">>
  ELSE <<NoErr>>

VerifyOK(b, tok, key, t) == verify(b, tok, key, t) = <<NoErr>>

\* -------------------------------------------------------- response writer
NewWriter == [calls |-> <<>>, status |-> 0, text |-> <<>>]

\* http.ResponseWriter.WriteHeader: the first call decides the status
WriteHeader(rw, code) ==
  [rw EXCEPT !.calls = Append(@, code),
             !.status = IF @ = 0 THEN code ELSE @]

\* http.Error: WriteHeader(code), then the message as the body
HttpError(rw, msg, code) == [WriteHeader(rw, code) EXCEPT !.text = Append(@, msg)]

\* =============================================================== Publisher
\* ------------------------------------------------------------ header names
\* Header names are sequences of characters: the code lower-cases them, tests
\* their prefix and canonicalises them.
LowerAlpha == <<"a", "b", "c", "d", "e", "f", "g", "h", "i", "j", "k", "l", "m", "n", "o", "p", "q", "r", "s", "t", "u", "v", "w", "x", "y", "z">>

UpperAlpha == <<"A", "B", "C", "D", "E", "F", "G", "H", "I", "J", "K", "L", "M", "N", "O", "P", "Q", "R", "S", "T", "U", "V", "W", "X", "Y", "Z">>

\* "Authorization"
HAuthorization == <<"A", "u", "t", "h", "o", "r", "i", "z", "a", "t", "i", "o", "n">>

\* "Content-Type"
HContentType == <<"C", "o", "n", "t", "e", "n", "t", "-", "T", "y", "p", "e">>

\* "Upstash-Deduplication-ID"
HDeduplicationID ==
  <<"U", "p", "s", "t", "a", "s", "h", "-", "D", "e", "d", "u", "p", "l", "i", "c",
    "a", "t", "i", "o", "n", "-", "I", "D">>

\* "Upstash-Content-Based-Deduplication"
HContentBasedDeduplication ==
  <<"U", "p", "s", "t", "a", "s", "h", "-", "C", "o", "n", "t", "e", "n", "t", "-",
    "B", "a", "s", "e", "d", "-", "D", "e", "d", "u", "p", "l", "i", "c", "a", "t",
    "i", "o", "n">>

\* "Upstash-Delay"
HDelay == <<"U", "p", "s", "t", "a", "s", "h", "-", "D", "e", "l", "a", "y">>

\* "Upstash-Schedule"
HSchedule ==
  <<"U", "p", "s", "t", "a", "s", "h", "-", "S", "c", "h", "e", "d", "u", "l", "e">>

\* "Upstash-Retries"
HRetries ==
  <<"U", "p", "s", "t", "a", "s", "h", "-", "R", "e", "t", "r", "i", "e", "s">>

\* "upstash-forward-"
ForwardPrefix ==
  <<"u", "p", "s", "t", "a", "s", "h", "-", "f", "o", "r", "w", "a", "r", "d", "-">>

\* "Upstash-Forward-Key"
KForwardKey ==
  <<"U", "p", "s", "t", "a", "s", "h", "-", "F", "o", "r", "w", "a", "r", "d", "-",
    "K", "e", "y">>

\* "upstash-forward-key"
KForwardLower ==
  <<"u", "p", "s", "t", "a", "s", "h", "-", "f", "o", "r", "w", "a", "r", "d", "-",
    "k", "e", "y">>

\* "Upstash-Forwarded"
KForwarded ==
  <<"U", "p", "s", "t", "a", "s", "h", "-", "F", "o", "r", "w", "a", "r", "d", "e",
    "d">>

\* "key"
KPlain == <<"k", "e", "y">>

IndexIn(alpha, c) == CHOOSE i \in 1..Len(alpha) : alpha[i] = c

IsIn(alpha, c) == \E i \in 1..Len(alpha) : alpha[i] = c

\* the characters of header names
HeaderChars ==
  {LowerAlpha[i] : i \in 1..Len(LowerAlpha)} \cup {UpperAlpha[i] : i \in 1..Len(UpperAlpha)}
    \cup {"-"}

\* unicode.ToLower and unicode.ToUpper on those characters
LowerTable ==
  [c \in HeaderChars |-> IF IsIn(UpperAlpha, c) THEN LowerAlpha[IndexIn(UpperAlpha, c)] ELSE c]

UpperTable ==
  [c \in HeaderChars |-> IF IsIn(LowerAlpha, c) THEN UpperAlpha[IndexIn(LowerAlpha, c)] ELSE c]

LowerChar(c) == LowerTable[c]

UpperChar(c) == UpperTable[c]

\* strings.ToLower
ToLower(s) == [i \in 1..Len(s) |-> LowerChar(s[i])]

\* strings.HasPrefix
HasPrefix(s, p) == Len(s) >= Len(p) /\ SubSeq(s, 1, Len(p)) = p

\* textproto.CanonicalMIMEHeaderKey, which http.Header.Set applies to its key:
\* the first letter and every letter after a hyphen upper case, the rest lower
CanonicalKey(s) ==
  [i \in 1..Len(s) |->
     IF i = 1 \/ s[i - 1] = "-" THEN UpperChar(s[i]) ELSE LowerChar(s[i])]

\* http.Header.Set
HeaderSet(h, k, v) ==
  LET ck == CanonicalKey(k)
  IN [x \in (DOMAIN h) \cup {ck} |-> IF x = ck THEN v ELSE h[x]]

\* http.Header.Get: the value under the canonical key, <<>> when there is none
HeaderGet(h, k) == IF CanonicalKey(k) \in DOMAIN h THEN h[CanonicalKey(k)] ELSE <<>>

EmptyHeader == [x \in {} |-> <<>>]

\* strconv.Itoa for n >= 0
RECURSIVE Itoa(_)
Itoa(n) == IF n < 10 THEN <<Digits[n + 1]>> ELSE Itoa(n \div 10) \o <<Digits[(n % 10) + 1]>>

\* time.Duration.String for a whole number of seconds below a minute
DurationString(d) == Itoa(d) \o <<"s">>

\* ----------------------------------------------------------- backoff policy
\* time.Duration is a signed integer; the model keeps DurBits bits of it
DurMod == 2 ^ DurBits

MaxDuration == (DurMod \div 2) - 1

\* two's complement wrap-around of Go's integer arithmetic
Wrap(x) == ((x + (DurMod \div 2)) % DurMod) - (DurMod \div 2)

\* the loop of getExponentialBackOffDuration, part_003:44-50
RECURSIVE BackOffLoop(_, _, _, _)
BackOffLoop(exp, i, attempt, max) ==
  IF i >= attempt THEN exp
  ELSE LET doubled == Wrap(exp * 2)
       IN IF doubled > max THEN max ELSE BackOffLoop(doubled, i + 1, attempt, max)

\* httpClient.getExponentialBackOffDuration, part_003:42-52
getExponentialBackOffDuration(c, attempt) ==
  BackOffLoop(c.MinBackOff, 0, attempt, c.MaxBackOff)

\* httpClient.isStatusOK, part_003:36-38
isStatusOK(statusCode) == statusCode >= 200 /\ statusCode < 300

\* the policies PublisherOptions.apply lets through (part_000:86-97), a
\* millisecond being one tick
Policies ==
  {c \in [Retries : 0..MaxRetries, MinBackOff : 1..MaxDuration, MaxBackOff : 1..MaxDuration] :
     c.MinBackOff <= c.MaxBackOff}

\* ---------------------------------------------------------------- options
ZeroOptions == [Delay |-> 0, Retries |-> 0, ContentBasedDeduplication |-> FALSE,
                Schedule |-> ""]

\* WithDelay, part_000:193-197
WithDelay(o, d) == [o EXCEPT !.Delay = d]

\* WithContentBasedDeduplication, part_000:203-207
WithContentBasedDeduplication(o) == [o EXCEPT !.ContentBasedDeduplication = TRUE]

\* WithRetries, part_000:210-214
WithRetries(o, n) == [o EXCEPT !.Retries = n]

\* WithSchedule
WithSchedule(o, s) == [o EXCEPT !.Schedule = s]

\* calling one PublishOption on the options
ApplyOption(o, opt) ==
  CASE opt.kind = "delay" -> WithDelay(o, opt.val)
    [] opt.kind = "cbd" -> WithContentBasedDeduplication(o)
    [] opt.kind = "retries" -> WithRetries(o, opt.val)
    [] opt.kind = "schedule" -> WithSchedule(o, opt.str)

\* PublishOptions.apply, part_000:181-187
RECURSIVE PublishOptionsApply(_, _)
PublishOptionsApply(o, opts) ==
  IF opts = <<>> THEN o
  ELSE PublishOptionsApply(ApplyOption(o, Head(opts)), Tail(opts))

OptDelay(d) == [kind |-> "delay", val |-> d, str |-> ""]
OptCBD == [kind |-> "cbd", val |-> 0, str |-> ""]
OptRetries(n) == [kind |-> "retries", val |-> n, str |-> ""]
OptSchedule(s) == [kind |-> "schedule", val |-> 0, str |-> s]

OptionValues == {OptDelay(0), OptDelay(1), OptCBD, OptRetries(3), OptSchedule("cron")}

OptionLists ==
  UNION {[1..n -> OptionValues] : n \in 0..MaxOpts}

\* ---------------------------------------------------------------- messages
\* Message.Headers: nil, or a map from header name to value
NilHeaders == [nil |-> TRUE, map |-> EmptyHeader]

HeadersOf(keys) == [nil |-> FALSE, map |-> [k \in keys |-> <<"value">>]]

CallerHeaders ==
  {NilHeaders, HeadersOf({}), HeadersOf({KForwardKey}), HeadersOf({KForwardLower}),
   HeadersOf({KPlain}), HeadersOf({KForwarded}), HeadersOf({HDeduplicationID}),
   HeadersOf({KForwardKey, HContentBasedDeduplication})}

PubMessages == [ID : {"", "custom-id"}, Headers : CallerHeaders, Body : {"message"}]

\* what uuid.NewV4 may return (part_002:13-28): an identifier, or the error of
\* the entropy source
UuidOutcomes == {[id |-> "uuid-1", err |-> NoErr], [id |-> "", err |-> "entropy"]}

\* before uuid.NewV4 was ever called
NoUuid == [id |-> "", err |-> NoErr]

\* --------------------------------------------------------------- transport
\* what one c.client.Do(req) may come back with: an error and no response, or
\* a response with a status and a body. text: the bytes of the body; json:
\* whether they decode into the struct of publisher.go:122-124; messageId: the
\* field's value when they do
\* wrote: whether the attempt read the request's body to write it out. A
\* failure to connect does not; an attempt that was answered did.
FailedSend(e) ==
  [err |-> e, status |-> 0, json |-> FALSE, messageId |-> "", text |-> "", wrote |-> FALSE]

Response(s, j, id, t) ==
  [err |-> NoErr, status |-> s, json |-> j, messageId |-> id, text |-> t, wrote |-> TRUE]

SendOutcomes ==
  {FailedSend("dial"), Response(199, FALSE, "", "early"), Response(300, FALSE, "", "moved"),
   Response(200, TRUE, "srv-1", "{messageId:srv-1}"), Response(200, FALSE, "", "not json"),
   Response(299, TRUE, "", "{}")}

\* the outcomes of a send under a context that is done
CancelledOutcomes == {FailedSend("context canceled")}

\* the outcome of a send of a request whose body reader (the bytes.Buffer of
\* publisher.go:66) an earlier attempt has drained: the transport finds fewer
\* bytes than the Content-Length and fails
DrainedOutcomes == {FailedSend("http: ContentLength with Body length 0")}

\* what c.client.Do(r) may come back with, part_003:23
AttemptOutcomes(r, done) ==
  IF done THEN CancelledOutcomes
  ELSE IF r.unread # r.Body THEN DrainedOutcomes
  ELSE SendOutcomes

\* a transport that builds each attempt after the first a request of its own,
\* under an identifier of its own
AttemptRequestFresh(r, n) ==
  IF n = 1 THEN r
  ELSE [r EXCEPT !.Header = [k \in DOMAIN r.Header |->
                               IF k = CanonicalKey(HDeduplicationID)
                               THEN <<"uuid-of-attempt", n>> ELSE r.Header[k]]]

\* part_003:23: every attempt is c.client.Do(req) on the one req it was given
AttemptRequest(r, n) == r

NoResult == [err |-> NoErr, status |-> 0, json |-> FALSE, messageId |-> "", text |-> "",
             n |-> 0]

\* an attempt that returned no error and a status in [200,299]
Succeeded(o) == o.err = NoErr /\ o.status >= 200 /\ o.status <= 299

\* part_003:25: the attempt failed and is retried
ShouldRetry(o) == o.err # NoErr \/ ~isStatusOK(o.status)

\* a loop that stops one attempt early
LoopContinuesShort(c, i) == i <= c.Retries

\* part_003:21: the loop test
LoopContinues(c, i) == i <= c.Retries + 1

\* ------------------------------------------------------------------ Publish
\* a validation that compares the prefix without lower-casing the key
HeadersValidCaseSensitive(h) ==
  h.nil \/ \A k \in DOMAIN h.map : HasPrefix(k, ForwardPrefix)

\* publisher.go:72-80: every caller header key carries the forwarding prefix
HeadersValid(h) ==
  h.nil \/ \A k \in DOMAIN h.map : HasPrefix(ToLower(k), ForwardPrefix)

\* a deduplication step that never looks at the caller's identifier
DeduplicateRegenerate(os, id, hdr, u) ==
  IF os.ContentBasedDeduplication
  THEN [err |-> NoErr, hdr |-> HeaderSet(hdr, HContentBasedDeduplication, <<"true">>),
        gen |-> FALSE]
  ELSE IF u.err # NoErr
  THEN [err |-> "could not generate uuid", hdr |-> hdr, gen |-> TRUE]
  ELSE [err |-> NoErr, hdr |-> HeaderSet(hdr, HDeduplicationID, <<u.id>>), gen |-> TRUE]

\* a deduplication step in which the content-based option wins over an identifier
DeduplicateContentWins(os, id, hdr, u) ==
  IF os.ContentBasedDeduplication
  THEN [err |-> NoErr, hdr |-> HeaderSet(hdr, HContentBasedDeduplication, <<"true">>),
        gen |-> FALSE]
  ELSE IF id # ""
  THEN [err |-> NoErr, hdr |-> HeaderSet(hdr, HDeduplicationID, <<id>>), gen |-> FALSE]
  ELSE IF u.err # NoErr
  THEN [err |-> "could not generate uuid", hdr |-> hdr, gen |-> TRUE]
  ELSE [err |-> NoErr, hdr |-> HeaderSet(hdr, HDeduplicationID, <<u.id>>), gen |-> TRUE]

\* a chain that sets the content-based flag and goes on to set an identifier too
DeduplicateBoth(os, id, hdr, u) ==
  LET h1 == IF os.ContentBasedDeduplication
            THEN HeaderSet(hdr, HContentBasedDeduplication, <<"true">>)
            ELSE hdr
  IN IF id # "" THEN [err |-> NoErr, hdr |-> HeaderSet(h1, HDeduplicationID, <<id>>),
                      gen |-> FALSE]
     ELSE IF u.err # NoErr THEN [err |-> "could not generate uuid", hdr |-> hdr, gen |-> TRUE]
     ELSE [err |-> NoErr, hdr |-> HeaderSet(h1, HDeduplicationID, <<u.id>>), gen |-> TRUE]

\* publisher.go:82-94: the deduplication header, given what uuid.NewV4 returns
\* when it is called. gen: whether the generator was called.
Deduplicate(os, id, hdr, u) ==
  LET hasID == id # "" IN
  IF hasID /\ os.ContentBasedDeduplication
  THEN [err |-> "you cannot set 'content based deduplication' and pass a custom deduplication id",
        hdr |-> hdr, gen |-> FALSE]
  ELSE IF os.ContentBasedDeduplication
  THEN [err |-> NoErr, hdr |-> HeaderSet(hdr, HContentBasedDeduplication, <<"true">>),
        gen |-> FALSE]
  ELSE IF hasID
  THEN [err |-> NoErr, hdr |-> HeaderSet(hdr, HDeduplicationID, <<id>>), gen |-> FALSE]
  ELSE IF u.err # NoErr
  THEN [err |-> "could not generate uuid", hdr |-> hdr, gen |-> TRUE]
  ELSE [err |-> NoErr, hdr |-> HeaderSet(hdr, HDeduplicationID, <<u.id>>), gen |-> TRUE]

\* request headers that always name a retry count
RequestHeadersAlwaysRetries(os, hdr, token) ==
  LET h1 == HeaderSet(hdr, HAuthorization, <<"Bearer ", token>>)
      h2 == HeaderSet(h1, HContentType, <<"application/json">>)
      h3 == IF os.Delay > 0 THEN HeaderSet(h2, HDelay, DurationString(os.Delay)) ELSE h2
      h4 == IF os.Schedule # "" THEN HeaderSet(h3, HSchedule, <<os.Schedule>>) ELSE h3
  IN HeaderSet(h4, HRetries, Itoa(os.Retries))

\* publisher.go:96-109: the standard headers and those of the options
RequestHeaders(os, hdr, token) ==
  LET h1 == HeaderSet(hdr, HAuthorization, <<"Bearer ", token>>)
      h2 == HeaderSet(h1, HContentType, <<"application/json">>)
      h3 == IF os.Delay > 0 THEN HeaderSet(h2, HDelay, DurationString(os.Delay)) ELSE h2
      h4 == IF os.Schedule # "" THEN HeaderSet(h3, HSchedule, <<os.Schedule>>) ELSE h3
  IN IF os.Retries > 0 THEN HeaderSet(h4, HRetries, Itoa(os.Retries)) ELSE h4

\* unread: what is left to read of the request's body
NoRequest == [url |-> <<>>, Header |-> EmptyHeader, Body |-> "", unread |-> "", aliased |-> FALSE]

\* URLs are sequences of pieces, the first piece being what precedes the colon
\* of the scheme. The default of part_000:165, and one url.Parse refuses.
DefaultURL == <<"https", ":", "//qstash.upstash.io/v2/publish">>

SchemelessURL == <<":", "//qstash.upstash.io/v2/publish">>

PublisherURLs == {DefaultURL, SchemelessURL}

\* fmt.Sprintf("%s/%s", q.url, q.topic), publisher.go:65
RequestURL(url, topic) == url \o <<"/", topic>>

\* http.NewRequest, publisher.go:63-70: url.Parse fails on a URL that begins
\* with the colon ("missing protocol scheme")
NewRequestError(url) ==
  IF url # <<>> /\ url[1] = ":" THEN "missing protocol scheme" ELSE NoErr

NoError == [msg |-> NoErr, status |-> 0, cause |-> NoErr, text |-> ""]

Error(msg, status, cause) == [msg |-> msg, status |-> status, cause |-> cause, text |-> ""]


\* the publisher side before (or without) a Publish; at: "idle" or "off"
\* no Publish yet
NoCall == [fn |-> "none", delay |-> 0, schedule |-> ""]

PubAt(at) ==
  /\ ppc = at
  /\ pubs = 0
  /\ pm0 = pm
  /\ req = NoRequest
  /\ uuidCalls = 0
  /\ uuidOut = NoUuid
  /\ ti = 0
  /\ tret = NoResult
  /\ sent = NoResult
  /\ sends = <<>>
  /\ sleeps = <<>>
  /\ ctxDone = FALSE
  /\ perr = NoError
  /\ pcall = NoCall


\* ------------------------------------------------------------ NewPublisher
\* time.Second
Second == 1000 * Millisecond

\* the zero value of PublisherOptions, part_000:54-65
ZeroPublisherOptions ==
  [QStashURL |-> <<>>, QStashToken |-> "",
   Client |-> [Timeout |-> 0, MaxBackOff |-> 0, MinBackOff |-> 0, Retries |-> 0],
   Verbose |-> FALSE, topic |-> ""]

\* a PublisherOption: its constructor and the argument it closes over
PublisherOption(kind, dur, n, str, url) ==
  [kind |-> kind, dur |-> dur, n |-> n, str |-> str, url |-> url]

WithClientMaxBackOff(d) == PublisherOption("WithClientMaxBackOff", d, 0, "", <<>>)
WithClientMinBackOff(d) == PublisherOption("WithClientMinBackOff", d, 0, "", <<>>)
WithClientRetries(n) == PublisherOption("WithClientRetries", 0, n, "", <<>>)
WithClientTimeout(d) == PublisherOption("WithClientTimeout", d, 0, "", <<>>)
WithQStashURL(u) == PublisherOption("WithQStashURL", 0, 0, "", u)
WithQStashToken(t) == PublisherOption("WithQStashToken", 0, 0, t, <<>>)
WithVerbose == PublisherOption("WithVerbose", 0, 0, "", <<>>)
withTopic(t) == PublisherOption("withTopic", 0, 0, t, <<>>)

\* opt(o), part_000:104-161
ApplyPublisherOption(o, opt) ==
  CASE opt.kind = "WithClientMaxBackOff" -> [o EXCEPT !.Client.MaxBackOff = opt.dur]
    [] opt.kind = "WithClientMinBackOff" -> [o EXCEPT !.Client.MinBackOff = opt.dur]
    [] opt.kind = "WithClientRetries" -> [o EXCEPT !.Client.Retries = opt.n]
    [] opt.kind = "WithClientTimeout" -> [o EXCEPT !.Client.Timeout = opt.dur]
    [] opt.kind = "WithQStashURL" -> [o EXCEPT !.QStashURL = opt.url]
    [] opt.kind = "WithQStashToken" -> [o EXCEPT !.QStashToken = opt.str]
    [] opt.kind = "WithVerbose" -> [o EXCEPT !.Verbose = TRUE]
    [] opt.kind = "withTopic" -> [o EXCEPT !.topic = opt.str]

\* defaultPublisherOptions, part_000:163-171; env: os.Getenv("QSTASH_TOKEN")
defaultPublisherOptions(env) ==
  <<WithQStashURL(DefaultURL), WithQStashToken(env), WithClientTimeout(Second),
    WithClientMaxBackOff(Second), WithClientMinBackOff(200 * Millisecond),
    WithClientRetries(5)>>

\* the loop of PublisherOptions.apply, part_000:70-72
RECURSIVE ApplyPublisherOptions(_, _)
ApplyPublisherOptions(o, opts) ==
  IF opts = <<>> THEN o
  ELSE ApplyPublisherOptions(ApplyPublisherOption(o, Head(opts)), Tail(opts))

\* a validation that lets a minimum above the maximum through
ValidateUnordered(o) ==
  IF o.QStashToken = "" THEN "'QSTASH_TOKEN' is required"
  ELSE IF o.QStashURL = <<>> THEN "qstash url is required"
  ELSE IF o.topic = "" THEN "topic is required"
  ELSE IF o.Client.Timeout < Millisecond
  THEN "http client timeout must at least 1 millisecond"
  ELSE IF o.Client.Retries < 0 THEN "http client retries must be at least 0"
  ELSE IF o.Client.MinBackOff < Millisecond
  THEN "http client min back off must at least 1 millisecond"
  ELSE IF o.Client.MaxBackOff < Millisecond
  THEN "http client max back off must at least 1 millisecond"
  ELSE NoErr

\* the validation of PublisherOptions.apply, part_000:73-98
Validate(o) ==
  IF o.QStashToken = "" THEN "'QSTASH_TOKEN' is required"
  ELSE IF o.QStashURL = <<>> THEN "qstash url is required"
  ELSE IF o.topic = "" THEN "topic is required"
  ELSE IF o.Client.Timeout < Millisecond
  THEN "http client timeout must at least 1 millisecond"
  ELSE IF o.Client.Retries < 0 THEN "http client retries must be at least 0"
  ELSE IF o.Client.MinBackOff < Millisecond
  THEN "http client min back off must at least 1 millisecond"
  ELSE IF o.Client.MaxBackOff < Millisecond
  THEN "http client max back off must at least 1 millisecond"
  ELSE IF o.Client.MinBackOff > o.Client.MaxBackOff
  THEN "http client min back off must be less than or equal to max back off"
  ELSE NoErr

\* no Publisher: the nil of publisher.go:34
NoPublisher ==
  [nil |-> TRUE, token |-> "", url |-> <<>>, topic |-> "",
   client |-> [Timeout |-> 0, MaxBackOff |-> 0, MinBackOff |-> 0, Retries |-> 0],
   verbose |-> FALSE]

\* NewPublisher, publisher.go:30-51: the Publisher and the error
NewPublisher(env, topic, opts) ==
  LET os == ApplyPublisherOptions(ZeroPublisherOptions,
                                  defaultPublisherOptions(env) \o opts \o <<withTopic(topic)>>)
  IN IF Validate(os) # NoErr
     THEN [called |-> TRUE, err |-> Validate(os), pub |-> NoPublisher]
     ELSE [called |-> TRUE, err |-> NoErr,
           pub |-> [nil |-> FALSE, token |-> os.QStashToken, url |-> os.QStashURL,
                    topic |-> os.topic,
                    client |-> [Timeout |-> os.Client.Timeout,
                                MaxBackOff |-> os.Client.MaxBackOff,
                                MinBackOff |-> os.Client.MinBackOff,
                                Retries |-> os.Client.Retries],
                    verbose |-> os.Verbose]]

\* NewPublisher has not been called
NotCalled == [called |-> FALSE, err |-> NoErr, pub |-> NoPublisher]

\* the durations, retry counts, URLs and tokens the caller's options carry
OptionDurations == {0, Millisecond - 1, Millisecond, Second, 2 * Second}

PublisherOptionValues ==
  {WithClientMaxBackOff(d) : d \in OptionDurations}
    \cup {WithClientMinBackOff(d) : d \in OptionDurations}
    \cup {WithClientTimeout(d) : d \in {0, Millisecond - 1, Millisecond}}
    \cup {WithClientRetries(n) : n \in {-1, 0, 2}}
    \cup {WithQStashURL(u) : u \in {<<>>, SchemelessURL}}
    \cup {WithQStashToken(t) : t \in {"", "other"}}
    \cup {WithVerbose}

PublisherOptionLists == UNION {[1..n -> PublisherOptionValues] : n \in 0..MaxNewOpts}

NewPublisherArgs == [env : {"", "token"}, topic : {"", "topic"}, opts : PublisherOptionLists]

\* no NewPublisher call is modelled
NewIdle ==
  /\ nargs = [env |-> "token", topic |-> "topic", opts |-> <<>>]
  /\ npub = NotCalled

\* ---------------------------------------------------------------- Receiver
NoMessage == [ID |-> <<>>, Headers |-> <<>>, Body |-> "", Retried |-> 0,
              bound |-> FALSE, isAcknowledged |-> FALSE]

MsgIds == {<<>>, <<"m", "1">>}
RetriedValues == {<<>>, <<"1", "2">>, <<"-", "3">>, <<"x">>, <<"9", "9">>}

\* The requests one handler run may be given.
Requests == [sig : Tokens, id : MsgIds, retried : RetriedValues, body : Bodies]

IdleRequest == [sig |-> Garbage, id |-> <<>>, retried |-> <<>>, body |-> "hello"]

\* One request arrives; the others are not in use.
InitRecv ==
  /\ signingKey = "k1"
  /\ nextSigningKey \in {"k1", "k2"}
  /\ now \in 1..(MaxTime - 1)
  /\ hasCallback \in BOOLEAN
  /\ \E rq \in Requests : inReq = [r \in Reqs |-> IF r = 1 THEN rq ELSE IdleRequest]
  /\ rpc = [r \in Reqs |-> IF r = 1 THEN "read" ELSE "idle"]
  /\ body = [r \in Reqs |-> ""]
  /\ verr = [r \in Reqs |-> <<>>]
  /\ m = [r \in Reqs |-> NoMessage]
  /\ w = [r \in Reqs |-> NewWriter]
  /\ cbCalls = [r \in Reqs |-> 0]
  /\ ackCalls = [r \in Reqs |-> 0]
  /\ pm = [ID |-> "", Headers |-> NilHeaders, Body |-> "message"]
  /\ qurl = DefaultURL
  /\ policy = [Retries |-> 0, MinBackOff |-> 1, MaxBackOff |-> 1]
  /\ popts = <<>>
  /\ PubAt("off")
  /\ NewIdle

keyvars == <<signingKey, nextSigningKey, now, hasCallback, inReq>>

\* receiver.go:40-45: io.ReadAll(r.Body), which may fail
ReadBody(r) ==
  /\ rpc[r] = "read"
  /\ \E ok \in BOOLEAN :
       IF ok
       THEN /\ body' = [body EXCEPT ![r] = inReq[r].body]
            /\ rpc' = [rpc EXCEPT ![r] = "verify"]
            /\ w' = w
       ELSE /\ body' = body
            /\ w' = [w EXCEPT ![r] = HttpError(@, <<"read error">>, StatusInternalServerError)]
            /\ rpc' = [rpc EXCEPT ![r] = "done"]
  /\ UNCHANGED <<keyvars, verr, m, cbCalls, ackCalls, pvars, nvars>>

\* a handler that lets every request through to the callback
VerifyOutcomeNeverRejects(e1, e2) == <<TRUE, <<>>>>

\* a handler that reports the first verification's message when both fail
VerifyOutcomeFirstMessage(e1, e2) ==
  IF e1 # <<NoErr>> THEN <<FALSE, e1>> ELSE <<TRUE, <<>>>>

\* receiver.go:47-57: what the handler does with the two verification results
\* e1, e2: the errors of verify against the current and the next key. The
\* result is <<verified, message of the 401>>.
VerifyOutcome(e1, e2) ==
  IF e1 # <<NoErr>>
  THEN IF e2 # <<NoErr>> THEN <<FALSE, e2>> ELSE <<FALSE, e1>>
  ELSE <<TRUE, <<>>>>

\* receiver.go:47-57
Verify(r) ==
  /\ rpc[r] = "verify"
  /\ LET tok == inReq[r].sig
         e1 == verify(body[r], tok, signingKey, now)
         e2 == verify(body[r], tok, nextSigningKey, now)
         out == VerifyOutcome(e1, e2)
     IN /\ verr' = [verr EXCEPT ![r] = IF e1 # <<NoErr>> THEN <<e1, e2>> ELSE <<e1>>]
        /\ IF out[1]
           THEN /\ rpc' = [rpc EXCEPT ![r] = "parse"]
                /\ w' = w
           ELSE /\ w' = [w EXCEPT ![r] = HttpError(@, out[2], StatusUnauthorized)]
                /\ rpc' = [rpc EXCEPT ![r] = "done"]
  /\ UNCHANGED <<keyvars, body, m, cbCalls, ackCalls, pvars, nvars>>

\* receiver.go:58-64: the Message handed to the callback
ParseMessage(r) ==
  /\ rpc[r] = "parse"
  /\ m' = [m EXCEPT ![r] = [ID |-> inReq[r].id,
                            Headers |-> [sig |-> inReq[r].sig, id |-> inReq[r].id,
                                         retried |-> inReq[r].retried],
                            Body |-> body[r],
                            Retried |-> Atoi(inReq[r].retried),
                            bound |-> TRUE,
                            isAcknowledged |-> FALSE]]
  /\ rpc' = [rpc EXCEPT ![r] = "call"]
  /\ UNCHANGED <<keyvars, body, verr, w, cbCalls, ackCalls, pvars, nvars>>

\* receiver.go:66-68: onReceive is called when there is one
CallReceiver(r) ==
  /\ rpc[r] = "call"
  /\ IF hasCallback
     THEN /\ cbCalls' = [cbCalls EXCEPT ![r] = @ + 1]
          /\ rpc' = [rpc EXCEPT ![r] = "callback"]
     ELSE /\ cbCalls' = cbCalls
          /\ rpc' = [rpc EXCEPT ![r] = "check"]
  /\ UNCHANGED <<keyvars, body, verr, m, w, ackCalls, pvars, nvars>>

\* an Ack that sets the flag and leaves the response to the handler
AckFlagOnly(msg, rw) == <<[msg EXCEPT !.isAcknowledged = TRUE], rw>>

\* Message.Ack, qstash.go:34-37
Ack(msg, rw) == <<[msg EXCEPT !.isAcknowledged = TRUE], WriteHeader(rw, StatusOK)>>

\* a Receiver that keeps one Message, and its writer, for all its requests
AckTargetsShared(r) == Reqs

\* receiver.go:59-64: m is a variable of the handler's own invocation and m.w
\* the writer of its own request, so that is what an Ack in request r reaches
AckTargets(r) == {r}

\* the callback calls m.Ack()
CallbackAck(r) ==
  /\ rpc[r] = "callback"
  /\ ackCalls[r] < MaxAcks
  /\ m' = [q \in Reqs |-> IF q \in AckTargets(r) THEN Ack(m[q], w[q])[1] ELSE m[q]]
  /\ w' = [q \in Reqs |-> IF q \in AckTargets(r) THEN Ack(m[q], w[q])[2] ELSE w[q]]
  /\ ackCalls' = [ackCalls EXCEPT ![r] = @ + 1]
  /\ UNCHANGED <<keyvars, rpc, body, verr, cbCalls, pvars, nvars>>

\* the callback returns
CallbackReturn(r) ==
  /\ rpc[r] = "callback"
  /\ rpc' = [rpc EXCEPT ![r] = "check"]
  /\ UNCHANGED <<keyvars, body, verr, m, w, cbCalls, ackCalls, pvars, nvars>>

\* receiver.go:70-73: an unacknowledged message is answered 422
NeedsRetry(msg) == ~msg.isAcknowledged

CheckAck(r) ==
  /\ rpc[r] = "check"
  /\ w' = [w EXCEPT ![r] =
             IF NeedsRetry(m[r])
             THEN HttpError(@, <<"message was not acknowledged by the receiver">>,
                            StatusUnprocessableEntity)
             ELSE @]
  /\ rpc' = [rpc EXCEPT ![r] = "done"]
  /\ UNCHANGED <<keyvars, body, verr, m, cbCalls, ackCalls, pvars, nvars>>

NextRecv ==
  \E r \in Reqs :
    \/ ReadBody(r)
    \/ Verify(r)
    \/ ParseMessage(r)
    \/ CallReceiver(r)
    \/ CallbackAck(r)
    \/ CallbackReturn(r)
    \/ CheckAck(r)

SpecRecv == InitRecv /\ [][NextRecv]_vars

\* a token signed with key over the body "hello", valid at time 1
SignedBy(key) ==
  [malformed |-> FALSE, alg |-> "HS256", key |-> key, iss |-> "Upstash", exp |-> MaxTime,
   nbf |-> 1, bodyClaim |-> BodyHash("hello")]

\* the requests that arrive together: signed with the current key, signed with
\* another key, and not signed
ConcurrentRequests ==
  {[sig |-> t, id |-> <<"m", "1">>, retried |-> <<>>, body |-> "hello"] :
     t \in {SignedBy("k1"), SignedBy("k2"), Garbage}}

\* every request is in flight, each in a handler of its own
InitRecv2 ==
  /\ signingKey = "k1"
  /\ nextSigningKey \in {"k1", "k2"}
  /\ now = 1
  /\ hasCallback \in BOOLEAN
  /\ inReq \in [Reqs -> ConcurrentRequests]
  /\ rpc = [r \in Reqs |-> "read"]
  /\ body = [r \in Reqs |-> ""]
  /\ verr = [r \in Reqs |-> <<>>]
  /\ m = [r \in Reqs |-> NoMessage]
  /\ w = [r \in Reqs |-> NewWriter]
  /\ cbCalls = [r \in Reqs |-> 0]
  /\ ackCalls = [r \in Reqs |-> 0]
  /\ pm = [ID |-> "", Headers |-> NilHeaders, Body |-> "message"]
  /\ qurl = DefaultURL
  /\ policy = [Retries |-> 0, MinBackOff |-> 1, MaxBackOff |-> 1]
  /\ popts = <<>>
  /\ PubAt("off")
  /\ NewIdle

SpecRecv2 == InitRecv2 /\ [][NextRecv]_vars

\* ------------------------------------------------------ Publisher actions
pubconf == <<qurl, policy, popts>>
tvars == <<ti, tret, sent, sends, sleeps, ctxDone>>

\* Publish up to the call of the transport, publisher.go:54-111, and the entry
\* of httpClient.Do, part_003:19-21
Publish(opts) ==
  /\ ppc \in {"idle", "returned"}
  /\ pubs < MaxPublishes
  /\ pubs' = pubs + 1
  /\ pm0' = pm
  /\ \E u \in UuidOutcomes :
       LET os == PublishOptionsApply(ZeroOptions, opts)
           dd == Deduplicate(os, pm.ID, pm.Headers.map, u)
           hdr == RequestHeaders(os, dd.hdr, "token")
       IN IF NewRequestError(RequestURL(qurl, "topic")) # NoErr
          THEN /\ perr' = Error("could not create request", 0,
                                NewRequestError(RequestURL(qurl, "topic")))
               /\ ppc' = "returned"
               /\ req' = NoRequest
               /\ UNCHANGED <<pm, uuidCalls, uuidOut>>
          ELSE IF ~HeadersValid(pm.Headers)
          THEN /\ perr' = Error("headers must start with 'Upstash-Forward-'", 0, NoErr)
               /\ ppc' = "returned"
               /\ req' = NoRequest
               /\ UNCHANGED <<pm, uuidCalls, uuidOut>>
          ELSE IF dd.err # NoErr
          THEN /\ perr' = Error(dd.err, 0, IF dd.gen THEN u.err ELSE NoErr)
               /\ ppc' = "returned"
               /\ req' = NoRequest
               /\ uuidCalls' = IF dd.gen THEN uuidCalls + 1 ELSE uuidCalls
               /\ uuidOut' = IF dd.gen THEN u ELSE uuidOut
               /\ pm' = pm
          ELSE /\ req' = [url |-> RequestURL(qurl, "topic"), Header |-> hdr,
                          Body |-> pm.Body, unread |-> pm.Body,
                          aliased |-> ~pm.Headers.nil]
               \* publisher.go:79: r.Header is the caller's map from here on
               /\ pm' = IF pm.Headers.nil THEN pm ELSE [pm EXCEPT !.Headers.map = hdr]
               /\ uuidCalls' = IF dd.gen THEN uuidCalls + 1 ELSE uuidCalls
               /\ uuidOut' = IF dd.gen THEN u ELSE uuidOut
               /\ perr' = NoError
               /\ ppc' = IF LoopContinues(policy, 1) THEN "send" ELSE "ret"
  /\ ti' = 1
  /\ tret' = NoResult
  /\ sent' = NoResult
  /\ sends' = <<>>
  /\ sleeps' = <<>>
  /\ ctxDone' = FALSE
  /\ UNCHANGED <<pubconf, rvars, nvars>>

\* a call of Publish itself, with the options of popts
PublishCall ==
  /\ Publish(popts)
  /\ pcall' = [fn |-> "Publish", delay |-> 0, schedule |-> ""]

\* the delays and schedules the convenience methods are called with
Delays == {-1, 0, 2}
Schedules == {"", "daily"}

\* convenience methods that put their option before the caller's
PublishWithDelayOptionsFirst(opts, delay) == <<OptDelay(delay)>> \o opts
PublishWithScheduleOptionsFirst(opts, schedule) == <<OptSchedule(schedule)>> \o opts

\* publisher.go:143: append(opts, WithDelay(delay))
PublishWithDelayOptions(opts, delay) == Append(opts, OptDelay(delay))

\* publisher.go:138: append(opts, WithSchedule(schedule))
PublishWithScheduleOptions(opts, schedule) == Append(opts, OptSchedule(schedule))

\* Publisher.PublishWithDelay, publisher.go:142-144
PublishWithDelayCall ==
  \E d \in Delays :
    /\ Publish(PublishWithDelayOptions(popts, d))
    /\ pcall' = [fn |-> "PublishWithDelay", delay |-> d, schedule |-> ""]

\* Publisher.PublishWithSchedule, publisher.go:137-139
PublishWithScheduleCall ==
  \E c \in Schedules :
    /\ Publish(PublishWithScheduleOptions(popts, c))
    /\ pcall' = [fn |-> "PublishWithSchedule", delay |-> 0, schedule |-> c]

\* a transport that holds on to the first failure it saw
DoResultKeepFirst(prev, res) == IF prev.n > 0 /\ ShouldRetry(prev) THEN prev ELSE res

\* part_003:23: resp, err = c.client.Do(req) overwrites what the last attempt left
DoResult(prev, res) == res

\* part_003:23-30: one c.client.Do(req) and the test of what it returned
Send ==
  /\ ppc = "send"
  /\ LET r == AttemptRequest(req, Len(sends) + 1) IN
     \E o \in AttemptOutcomes(r, ctxDone) :
       LET res == [err |-> o.err, status |-> o.status, json |-> o.json,
                   messageId |-> o.messageId, text |-> o.text, n |-> Len(sends) + 1]
       IN /\ sent' = res
          /\ tret' = DoResult(tret, res)
          /\ sends' = Append(sends, [n |-> res.n, failed |-> ~Succeeded(res),
                                     hdr |-> r.Header, body |-> r.Body,
                                     avail |-> r.unread, ctx |-> ctxDone])
          /\ req' = [req EXCEPT !.unread = IF o.wrote THEN "" ELSE @]
          /\ ppc' = IF ShouldRetry(res) THEN "sleep" ELSE "ret"
  /\ UNCHANGED <<pubconf, pcall, pm, pm0, pubs, uuidCalls, uuidOut, ti, sleeps, ctxDone, perr,
                 rvars, nvars>>

\* part_003:26: time.Sleep(c.getExponentialBackOffDuration(i)) begins
StartSleep ==
  /\ ppc = "sleep"
  /\ sleeps' = Append(sleeps, [d |-> getExponentialBackOffDuration(policy, ti),
                               ctx |-> ctxDone])
  /\ ppc' = "sleeping"
  /\ UNCHANGED <<pubconf, pcall, pm, pm0, pubs, req, uuidCalls, uuidOut, ti, tret, sent, sends, ctxDone,
                 perr, rvars, nvars>>

\* part_003:27 and 21: the sleep is over; continue, i++, the loop test
Wake ==
  /\ ppc = "sleeping"
  /\ ti' = ti + 1
  /\ ppc' = IF LoopContinues(policy, ti + 1) THEN "send" ELSE "ret"
  /\ UNCHANGED <<pubconf, pcall, pm, pm0, pubs, req, uuidCalls, uuidOut, tret, sent, sends, sleeps,
                 ctxDone, perr, rvars, nvars>>

\* the caller cancels the context of the Publish in progress, or its deadline passes
Cancel ==
  /\ ppc \in {"send", "sleep", "sleeping"}
  /\ ~ctxDone
  /\ ctxDone' = TRUE
  /\ UNCHANGED <<pubconf, pcall, pm, pm0, pubs, req, uuidCalls, uuidOut, ppc, ti, tret, sent, sends,
                 sleeps, perr, rvars, nvars>>

\* a Publish that lets statuses below 200 through to the decoder
PublishResultNoLowerBound(o) ==
  IF o.err # NoErr THEN Error("could not complete request", 0, o.err)
  ELSE IF o.status > 299
  THEN [Error("bad request status", o.status, NoErr) EXCEPT !.text = o.text]
  ELSE IF ~o.json THEN Error("could not decode response", 0, NoErr)
  ELSE NoError

\* publisher.go:112-133: what Publish returns for the transport's result
PublishResult(o) ==
  IF o.err # NoErr THEN Error("could not complete request", 0, o.err)
  ELSE IF o.status < 200 \/ o.status > 299
  THEN [Error("bad request status", o.status, NoErr) EXCEPT !.text = o.text]
  ELSE IF ~o.json THEN Error("could not decode response", 0, NoErr)
  ELSE NoError

\* a Publish that takes over the identifier of every answer, decoded or not
SetMessageIDAlways(msg, o) ==
  IF o.err = NoErr THEN [msg EXCEPT !.ID = o.messageId] ELSE msg

\* publisher.go:129: m.ID = body.MessageID, reached only when nothing failed
SetMessageID(msg, o) ==
  IF PublishResult(o) = NoError THEN [msg EXCEPT !.ID = o.messageId] ELSE msg

\* part_003:32 and publisher.go:111-133: the transport returns resp, err and
\* Publish returns
PublishReturn ==
  /\ ppc = "ret"
  /\ perr' = PublishResult(tret)
  /\ pm' = SetMessageID(pm, tret)
  /\ ppc' = "returned"
  /\ UNCHANGED <<pubconf, pcall, pm0, pubs, req, uuidCalls, uuidOut, tvars, rvars, nvars>>

NextPub ==
  \/ PublishCall
  \/ Send
  \/ StartSleep
  \/ Wake
  \/ Cancel
  \/ PublishReturn

\* the receiver side when no request is in flight
RecvIdle ==
  /\ signingKey = "k1"
  /\ nextSigningKey = "k2"
  /\ now = 1
  /\ hasCallback = FALSE
  /\ inReq = [r \in Reqs |-> IdleRequest]
  /\ rpc = [r \in Reqs |-> "idle"]
  /\ body = [r \in Reqs |-> ""]
  /\ verr = [r \in Reqs |-> <<>>]
  /\ m = [r \in Reqs |-> NoMessage]
  /\ w = [r \in Reqs |-> NewWriter]
  /\ cbCalls = [r \in Reqs |-> 0]
  /\ ackCalls = [r \in Reqs |-> 0]

\* a publisher that retries once, given any message and options
InitPub ==
  /\ RecvIdle
  /\ qurl \in PublisherURLs
  /\ policy = [Retries |-> 1, MinBackOff |-> 1, MaxBackOff |-> 3]
  /\ pm \in PubMessages
  /\ popts \in OptionLists
  /\ PubAt("idle")
  /\ NewIdle

SpecPub == InitPub /\ [][NextPub]_vars

\* a publisher with any valid policy, given one plain message
InitTransport ==
  /\ RecvIdle
  /\ qurl = DefaultURL
  /\ policy \in Policies
  /\ pm = [ID |-> "", Headers |-> NilHeaders, Body |-> "message"]
  /\ popts = <<>>
  /\ PubAt("idle")
  /\ NewIdle

SpecTransport == InitTransport /\ [][NextPub]_vars

\* Publish and its two convenience methods
NextConv ==
  \/ PublishCall
  \/ PublishWithDelayCall
  \/ PublishWithScheduleCall
  \/ Send
  \/ StartSleep
  \/ Wake
  \/ Cancel
  \/ PublishReturn

\* the options that bear on a delay or a schedule, and one that does not
ConvOptionLists ==
  UNION {[1..n -> {OptDelay(1), OptSchedule("cron"), OptCBD}] : n \in 0..MaxOpts}

\* a publisher that does not retry, given a message without headers
InitConv ==
  /\ RecvIdle
  /\ qurl = DefaultURL
  /\ policy = [Retries |-> 0, MinBackOff |-> 1, MaxBackOff |-> 1]
  /\ pm \in [ID : {"", "custom-id"}, Headers : {NilHeaders}, Body : {"message"}]
  /\ popts \in ConvOptionLists
  /\ PubAt("idle")
  /\ NewIdle

SpecConv == InitConv /\ [][NextConv]_vars

\* ---------------------------------------------------- NewPublisher action
\* the call of NewPublisher with the arguments of nargs
NewPublisherCall ==
  /\ ~npub.called
  /\ npub' = NewPublisher(nargs.env, nargs.topic, nargs.opts)
  /\ UNCHANGED <<nargs, rvars, pvars>>

NextNew == NewPublisherCall

\* any environment, topic and options, and no Publish yet
InitNew ==
  /\ RecvIdle
  /\ qurl = DefaultURL
  /\ policy = [Retries |-> 0, MinBackOff |-> 1, MaxBackOff |-> 1]
  /\ pm = [ID |-> "", Headers |-> NilHeaders, Body |-> "message"]
  /\ popts = <<>>
  /\ PubAt("off")
  /\ nargs \in NewPublisherArgs
  /\ npub = NotCalled

SpecNew == InitNew /\ [][NextNew]_vars

\* ------------------------------------------------------- Receiver claims
\* the handler ran both verifications of request r
BothTried(r) == Len(verr[r]) = 2

FailedCurrent(r) == Len(verr[r]) >= 1 /\ verr[r][1] # <<NoErr>>

PassedCurrent(r) == Len(verr[r]) >= 1 /\ verr[r][1] = <<NoErr>>

PassedNext(r) == BothTried(r) /\ verr[r][2] = <<NoErr>>

FailedNext(r) == BothTried(r) /\ verr[r][2] # <<NoErr>>

\* C1: a request whose token fails against the current signing key and passes
\* against the next signing key is treated as verified: once it is handled its
\* response is not 401 and the callback (when there is one) has been invoked.
C1_KeyRotationAccepted ==
  \A r \in Reqs :
    (rpc[r] = "done" /\ FailedCurrent(r) /\ PassedNext(r))
      => (w[r].status # StatusUnauthorized /\ (hasCallback => cbCalls[r] = 1))

\* C2: when the token fails against both keys the handler is in its terminal
\* state with exactly one status written, 401, carrying the message of the
\* second (next-key) verification, and the callback is not invoked.
C2_BothKeysFail401 ==
  \A r \in Reqs :
    (FailedCurrent(r) /\ FailedNext(r))
      => /\ rpc[r] = "done"
         /\ w[r].calls = <<StatusUnauthorized>>
         /\ w[r].status = StatusUnauthorized
         /\ w[r].text = <<verr[r][2]>>
         /\ cbCalls[r] = 0
         /\ ~m[r].bound

\* C2's case: both verifications failed, with different messages
C2_Witness ==
  \E r \in Reqs :
    /\ rpc[r] = "done" /\ FailedCurrent(r) /\ FailedNext(r)
    /\ verr[r][1] # verr[r][2]
    /\ verr[r][2] = <<"body hash does not match">>

\* the callback of request r has returned, or there is none to call
CallbackOver(r) ==
  IF hasCallback THEN cbCalls[r] = 1 /\ rpc[r] \in {"check", "done"} ELSE TRUE

\* C3: when verification succeeds (against either key) and the callback returns
\* without having called Ack, or no callback is registered, the handled request
\* is answered 422 and no 200 is written.
C3_UnackedIs422 ==
  \A r \in Reqs :
    (rpc[r] = "done" /\ (PassedCurrent(r) \/ PassedNext(r)) /\ CallbackOver(r)
       /\ ackCalls[r] = 0)
      => /\ w[r].status = StatusUnprocessableEntity
         /\ \A i \in 1..Len(w[r].calls) : w[r].calls[i] # StatusOK

\* an Ack call of request r in this step
AckStep(r) == ackCalls'[r] = ackCalls[r] + 1

\* C4: a call of Ack sets the acknowledgment flag and writes 200 to the
\* response in the same step, inside the callback; when the callback called Ack
\* once, the handled request has the single status 200 and no error text.
C4_AckWrites200 ==
  /\ [][\A r \in Reqs :
          AckStep(r) => /\ rpc[r] = "callback" /\ rpc'[r] = "callback"
                        /\ m'[r].isAcknowledged
                        /\ w'[r].calls = Append(w[r].calls, StatusOK)
                        /\ (ackCalls[r] = 0 => w'[r].status = StatusOK)]_vars
  /\ [](\A r \in Reqs :
          (rpc[r] = "done" /\ ackCalls[r] = 1)
            => /\ w[r].calls = <<StatusOK>>
               /\ w[r].status = StatusOK
               /\ w[r].text = <<>>)

\* C4's case: the callback acknowledged once and the handler has finished
C4_Witness ==
  \E r \in Reqs :
    rpc[r] = "done" /\ ackCalls[r] = 1 /\ cbCalls[r] = 1 /\ w[r].status = StatusOK

\* ------------------------------------------------------ Transport claims
\* httpClient.Do has returned to Publish
TransportReturned == ppc \in {"ret", "returned"} /\ req # NoRequest

\* the transport is inside httpClient.Do
InTransport == ppc \in {"send", "sleep", "sleeping"}

AllFailed == \A j \in DOMAIN sends : sends[j].failed

C6_CancelAborts ==
  /\ \A i \in DOMAIN sleeps : ~sleeps[i].ctx
  /\ Cardinality({i \in DOMAIN sends : sends[i].ctx}) <= 1

Min(a, b) == IF a <= b THEN a ELSE b

\* C7: the sleep after failed attempt i is min(MinBackOff * 2^(i-1), MaxBackOff):
\* the schedule starts at MinBackOff and doubles until it clamps at MaxBackOff.
C7_ScheduleStartsAtMin ==
  \A i \in DOMAIN sleeps :
    sleeps[i].d = Min(policy.MinBackOff * (2 ^ (i - 1)), policy.MaxBackOff)

\* C8: for every policy with 0 < MinBackOff <= MaxBackOff the sleeps of one call
\* are non-decreasing, lie between MinBackOff and MaxBackOff, and stay at
\* MaxBackOff once they reach it.
C8_ScheduleBounded ==
  \A i \in DOMAIN sleeps :
    /\ policy.MinBackOff <= sleeps[i].d
    /\ sleeps[i].d <= policy.MaxBackOff
    /\ \A j \in DOMAIN sleeps :
         i < j => /\ sleeps[i].d <= sleeps[j].d
                  /\ (sleeps[i].d = policy.MaxBackOff => sleeps[j].d = policy.MaxBackOff)

\* every attempt of the schedule was made and failed
Exhausted == ppc = "ret" /\ Len(sends) = policy.Retries + 1 /\ AllFailed

\* C9: when all Retries+1 attempts fail the transport returns exactly what the
\* final attempt came back with (its error, or its non-2xx response and no
\* error), never the outcome of an earlier attempt.
C9_LastOutcomeReturned ==
  Exhausted => /\ tret = sent
               /\ tret.n = policy.Retries + 1
               /\ ShouldRetry(tret)

\* C9's case: the schedule is exhausted after more than one attempt and the
\* final attempt returned a non-2xx response
C9_Witness ==
  Exhausted /\ Len(sends) >= 2 /\ sent.err = NoErr /\ sent.status = 300 /\ tret.n = Len(sends)

\* ------------------------------------------------------ Publisher claims
\* the header map holds a header of this name (names are case-insensitive)
Carries(h, name) ==
  \E k \in DOMAIN h :
    Len(k) = Len(name) /\ \A i \in 1..Len(k) : LowerChar(k[i]) = LowerChar(name[i])

ExactlyOneDeduplication(h) ==
  /\ Carries(h, HDeduplicationID) # Carries(h, HContentBasedDeduplication)
  /\ Carries(h, HContentBasedDeduplication)
       => HeaderGet(h, HContentBasedDeduplication) = <<"true">>

\* the header maps Publish has handed to the transport in this call
HandedOver ==
  {sends[i].hdr : i \in DOMAIN sends}
    \cup (IF InTransport \/ TransportReturned THEN {req.Header} ELSE {})

\* C10: every request Publish hands to the transport carries exactly one of
\* Upstash-Deduplication-ID and Upstash-Content-Based-Deduplication: true, never
\* both and never neither.
C10_ExactlyOneDedupHeader == \A h \in HandedOver : ExactlyOneDeduplication(h)

\* C10's case: a request with caller headers and content-based deduplication
\* was sent
C10_Witness ==
  \E i \in DOMAIN sends :
    /\ Carries(sends[i].hdr, HContentBasedDeduplication)
    /\ ~Carries(sends[i].hdr, HDeduplicationID)
    /\ KForwardKey \in DOMAIN sends[i].hdr

\* the options of the Publish calls
PubOptions == PublishOptionsApply(ZeroOptions, popts)

\* a step that is a call of Publish
PublishStep == pubs' = pubs + 1

\* every key of the caller's headers begins, in any case, with upstash-forward-
AllForwarded(h) ==
  h.nil \/ \A k \in DOMAIN h.map :
             /\ Len(k) >= Len(ForwardPrefix)
             /\ \A i \in 1..Len(ForwardPrefix) : LowerChar(k[i]) = ForwardPrefix[i]

\* the message gets as far as the choice of the deduplication header
Accepted(msg) == NewRequestError(RequestURL(qurl, "topic")) = NoErr /\ AllForwarded(msg.Headers)

\* C11: without content-based deduplication, a message with an identifier gets
\* Upstash-Deduplication-ID equal to that identifier and the generator is not
\* called; a message without one makes Publish call the generator exactly once
\* and the header is the generator's output; when the generator fails Publish
\* returns that failure and nothing is sent.
C11_DeduplicationIDSelection ==
  /\ [][(PublishStep /\ ~PubOptions.ContentBasedDeduplication /\ Accepted(pm)) =>
          IF pm.ID # ""
          THEN /\ uuidCalls' = uuidCalls
               /\ req' # NoRequest
               /\ HeaderGet(req'.Header, HDeduplicationID) = <<pm.ID>>
          ELSE /\ uuidCalls' = uuidCalls + 1
               /\ IF uuidOut'.err = NoErr
                  THEN /\ req' # NoRequest
                       /\ HeaderGet(req'.Header, HDeduplicationID) = <<uuidOut'.id>>
                  ELSE /\ perr'.msg = "could not generate uuid"
                       /\ perr'.cause = uuidOut'.err
                       /\ ppc' = "returned"
                       /\ req' = NoRequest
                       /\ sends' = <<>>]_vars
  /\ [](/\ perr.msg = "could not generate uuid" => (sends = <<>> /\ ppc = "returned")
        /\ \A i \in DOMAIN sends :
             ~PubOptions.ContentBasedDeduplication =>
               HeaderGet(sends[i].hdr, HDeduplicationID)
                 = <<IF pm0.ID # "" THEN pm0.ID ELSE uuidOut.id>>)

\* C11's case: a message without an identifier was sent under the generator's
\* output
C11_Witness ==
  /\ pm0.ID = ""
  /\ uuidCalls = 1
  /\ uuidOut = [id |-> "uuid-1", err |-> NoErr]
  /\ Len(sends) >= 1
  /\ HeaderGet(sends[1].hdr, HDeduplicationID) = <<"uuid-1">>

\* the message has an identifier and the options ask for content-based
\* deduplication
Conflicting(msg) == msg.ID # "" /\ PubOptions.ContentBasedDeduplication

\* C12: a Publish of a message with a non-empty identifier under the
\* content-based-deduplication option returns an error (the conflict error once
\* the request was built and the headers validated), builds nothing for the
\* transport, sends nothing and does not call the generator.
C12_ConflictRejected ==
  /\ [][(PublishStep /\ Conflicting(pm)) =>
          /\ perr' # NoError
          /\ Accepted(pm) =>
               perr'.msg = "you cannot set 'content based deduplication' and pass a custom deduplication id"
          /\ ppc' = "returned"
          /\ req' = NoRequest
          /\ sends' = <<>>
          /\ uuidCalls' = uuidCalls
          /\ uuidOut' = uuidOut]_vars
  /\ []((pubs > 0 /\ Conflicting(pm0)) =>
          (ppc = "returned" /\ perr # NoError /\ sends = <<>> /\ sleeps = <<>>))

\* C12's case: a valid message with an identifier was published with the option
C12_Witness ==
  /\ ppc = "returned"
  /\ pm0.ID = "custom-id"
  /\ PubOptions.ContentBasedDeduplication
  /\ Accepted(pm0)
  /\ ~pm0.Headers.nil
  /\ perr.msg = "you cannot set 'content based deduplication' and pass a custom deduplication id"

\* C13: when some key of the caller's headers lacks the prefix upstash-forward-
\* (in any case) Publish returns the validation error and nothing is sent; when
\* every key has it no validation error is returned, a request is built unless
\* the deduplication step fails, and every request handed to the transport
\* holds each caller header under its own key with its own value.
C13_ForwardedHeaders ==
  (pubs > 0 /\ NewRequestError(RequestURL(qurl, "topic")) = NoErr) =>
    IF ~AllForwarded(pm0.Headers)
    THEN /\ ppc = "returned"
         /\ perr.msg = "headers must start with 'Upstash-Forward-'"
         /\ req = NoRequest
         /\ sends = <<>>
    ELSE /\ perr.msg # "headers must start with 'Upstash-Forward-'"
         /\ (~Conflicting(pm0) /\ perr.msg # "could not generate uuid") => req # NoRequest
         /\ \A h \in HandedOver :
              \A k \in DOMAIN pm0.Headers.map :
                k \in DOMAIN h /\ h[k] = pm0.Headers.map[k]

\* C13's case: a header whose key is written in lower case was sent as it is
C13_Witness ==
  /\ pm0.Headers = HeadersOf({KForwardLower})
  /\ Len(sends) >= 1
  /\ KForwardLower \in DOMAIN sends[1].hdr
  /\ sends[1].hdr[KForwardLower] = <<"value">>

\* the current Publish got through validation and identifier generation
Prepared ==
  /\ Accepted(pm0)
  /\ ~Conflicting(pm0)
  /\ (pm0.ID = "" /\ ~PubOptions.ContentBasedDeduplication) => uuidOut.err = NoErr

\* C14: Publish returns success exactly when validation passed, the generator
\* (when needed) succeeded, the transport returned no error and a status in
\* [200,299], and the body decoded; the transport is called exactly when the
\* first two hold; a transport answer with a status outside [200,299] makes
\* Publish return an error with that status and the text of the response body.
C14_SuccessIff ==
  (ppc = "returned" /\ pubs > 0) =>
    /\ (sends # <<>>) <=> Prepared
    /\ (perr = NoError) <=>
         (Prepared /\ tret.err = NoErr /\ tret.status >= 200 /\ tret.status <= 299 /\ tret.json)
    /\ (sends # <<>> /\ tret.err = NoErr /\ (tret.status < 200 \/ tret.status > 299)) =>
         (perr # NoError /\ perr.status = tret.status /\ perr.text = tret.text)

\* C14's case: the retries ended on a status below 200 and Publish returned it
C14_Witness ==
  /\ ppc = "returned"
  /\ Len(sends) = 2
  /\ tret.status = 199
  /\ perr.status = 199
  /\ perr.text = "early"

\* C15: after a successful Publish the message's identifier is the messageId of
\* the broker's answer; during a Publish and after one that returned an error
\* the identifier is what it was before the call.
C15_IdentifierAssignment ==
  pubs > 0 =>
    IF ppc = "returned" /\ perr = NoError
    THEN pm.ID = tret.messageId
    ELSE pm.ID = pm0.ID

\* C15's case: a message with an identifier of its own took the broker's
C15_Witness ==
  /\ ppc = "returned"
  /\ perr = NoError
  /\ pm0.ID = "custom-id"
  /\ tret.messageId = "srv-1"
  /\ pm.ID = "srv-1"

\* the standard and option header names as http.Header.Set spells them
NameAuthorization == CanonicalKey(HAuthorization)
NameContentType == CanonicalKey(HContentType)
NameDeduplicationID == CanonicalKey(HDeduplicationID)
NameContentBasedDeduplication == CanonicalKey(HContentBasedDeduplication)
NameDelay == CanonicalKey(HDelay)
NameSchedule == CanonicalKey(HSchedule)
NameRetries == CanonicalKey(HRetries)

\* the names of the headers a request of the current Publish is to have
ExpectedNames ==
  {NameAuthorization, NameContentType}
    \cup {IF PubOptions.ContentBasedDeduplication
          THEN NameContentBasedDeduplication ELSE NameDeduplicationID}
    \cup (DOMAIN pm0.Headers.map)
    \cup (IF PubOptions.Delay > 0 THEN {NameDelay} ELSE {})
    \cup (IF PubOptions.Schedule # "" THEN {NameSchedule} ELSE {})
    \cup (IF PubOptions.Retries > 0 THEN {NameRetries} ELSE {})

\* the values of the standard and the option headers of h, which has the
\* expected names
ExpectedValues(h) ==
  /\ h[NameAuthorization] = <<"Bearer ", "token">>
  /\ h[NameContentType] = <<"application/json">>
  /\ PubOptions.Delay > 0 => h[NameDelay] = DurationString(PubOptions.Delay)
  /\ PubOptions.Schedule # "" => h[NameSchedule] = <<PubOptions.Schedule>>
  /\ PubOptions.Retries > 0 => h[NameRetries] = Itoa(PubOptions.Retries)

\* h and g agree on every header but the one called name
SameBut(h, g, name) ==
  /\ (DOMAIN h) \ {CanonicalKey(name)} = (DOMAIN g) \ {CanonicalKey(name)}
  /\ \A k \in (DOMAIN h) \ {CanonicalKey(name)} : h[k] = g[k]

\* C16: the headers of every request handed to the transport are exactly
\* Authorization, Content-Type, the one deduplication header, the caller's
\* headers, Upstash-Delay iff the delay is > 0, Upstash-Schedule iff the schedule
\* is non-empty and Upstash-Retries iff the retry count is > 0, with the values
\* the options give; the URL is base/topic and the body the message's; and
\* adding a delay, schedule or retries option changes that option's header only.
C16_ExactHeaderSet ==
  /\ \A h \in HandedOver : DOMAIN h = ExpectedNames /\ ExpectedValues(h)
  /\ (InTransport \/ TransportReturned) =>
       (req.url = RequestURL(qurl, "topic") /\ req.Body = pm0.Body)
  /\ \A i \in DOMAIN sends : sends[i].body = pm0.Body
  /\ ppc = "send" =>
       \A opt \in {OptDelay(1), OptRetries(3), OptSchedule("cron")} :
         LET base == IF pm0.Headers.nil THEN EmptyHeader ELSE pm0.Headers.map
             name == CASE opt.kind = "delay" -> HDelay
                       [] opt.kind = "retries" -> HRetries
                       [] opt.kind = "schedule" -> HSchedule
         IN SameBut(RequestHeaders(ApplyOption(PubOptions, opt), base, "token"),
                    RequestHeaders(PubOptions, base, "token"), name)

\* C16's case: a request with a caller header, a delay and a retry count was sent
C16_Witness ==
  /\ Len(sends) >= 1
  /\ PubOptions.Delay = 1
  /\ PubOptions.Retries = 3
  /\ ~pm0.Headers.nil
  /\ HeaderGet(sends[1].hdr, HDelay) = <<"1", "s">>
  /\ HeaderGet(sends[1].hdr, HRetries) = <<"3">>
  /\ Cardinality(DOMAIN sends[1].hdr) = 6

\* C17: Publish changes nothing of the Message but its identifier: during and
\* after every call the caller's Headers hold the keys and values they held at
\* the call, and Body is what it was.
C17_OnlyIdentifierMutated ==
  pubs > 0 => (pm.Headers = pm0.Headers /\ pm.Body = pm0.Body)

\* ------------------------------------------------- more Receiver claims
\* but for its not-before claim the token is valid for body b under the key at
\* time t: HMAC, signed with the key, issued by Upstash, not expired, bound to b
ValidButNotBefore(tok, b, key, t) ==
  /\ ~tok.malformed
  /\ tok.alg = "HS256"
  /\ tok.key = key
  /\ tok.iss = "Upstash"
  /\ tok.exp # 0 /\ t <= tok.exp
  /\ tok.bodyClaim = BodyHash(b)

\* C18: an otherwise valid token is accepted by verify when its not-before
\* claim is absent or not after the current time, and rejected only when the
\* claim is present and in the future.
C18_NotBeforeOptional ==
  \A r \in Reqs :
    (Len(verr[r]) >= 1 /\ ValidButNotBefore(inReq[r].sig, body[r], signingKey, now))
      => (verr[r][1] = <<NoErr>> <=> (inReq[r].sig.nbf = 0 \/ inReq[r].sig.nbf <= now))

\* the token is signed with the key and all its claims but the body hash pass
\* at time t
SignedAndCurrent(tok, key, t) ==
  /\ ~tok.malformed
  /\ tok.alg = "HS256"
  /\ tok.key = key
  /\ tok.iss = "Upstash"
  /\ tok.exp # 0 /\ t <= tok.exp
  /\ tok.nbf # 0 /\ tok.nbf <= t

\* the token of request r is bound to another body than the one received
OtherBody(r) == Len(verr[r]) >= 1 /\ inReq[r].sig.bodyClaim # BodyHash(body[r])

BodyHashError == <<"body hash does not match">>

\* C19 as stated: a token signed with a trusted key and presented with another
\* body fails under both keys with the body-hash error, is answered 401 and the
\* callback is not invoked.
C19_BodyHashErrorUnderBothKeys ==
  \A r \in Reqs :
    (OtherBody(r) /\ (\/ SignedAndCurrent(inReq[r].sig, signingKey, now)
                      \/ SignedAndCurrent(inReq[r].sig, nextSigningKey, now)))
      => /\ verr[r] = <<BodyHashError, BodyHashError>>
         /\ w[r].status = StatusUnauthorized
         /\ cbCalls[r] = 0

\* C19: a verification succeeds only when the token's body-hash claim is the
\* hash of the body received; a token presented with another body fails under
\* both keys, the request is answered 401 at once and the callback is never
\* invoked; under the key that signed an otherwise valid token the failure is
\* the body-hash error (under the other key it is that key's own error).
C19_BodyBinding ==
  \A r \in Reqs :
    /\ \A i \in DOMAIN verr[r] :
         verr[r][i] = <<NoErr>> => inReq[r].sig.bodyClaim = BodyHash(body[r])
    /\ OtherBody(r) =>
         /\ FailedCurrent(r) /\ FailedNext(r)
         /\ rpc[r] = "done"
         /\ w[r].calls = <<StatusUnauthorized>>
         /\ cbCalls[r] = 0
         /\ ~m[r].bound
         /\ SignedAndCurrent(inReq[r].sig, signingKey, now) => verr[r][1] = BodyHashError
         /\ SignedAndCurrent(inReq[r].sig, nextSigningKey, now) => verr[r][2] = BodyHashError
    /\ (Len(verr[r]) >= 1 /\ ~OtherBody(r) /\ SignedAndCurrent(inReq[r].sig, signingKey, now))
         => verr[r][1] = <<NoErr>>

\* C19's case: a token signed with the current key arrives with another body
\* while the next key is a different key
C19_Witness ==
  \E r \in Reqs :
    /\ rpc[r] = "done"
    /\ OtherBody(r)
    /\ SignedAndCurrent(inReq[r].sig, signingKey, now)
    /\ signingKey # nextSigningKey
    /\ verr[r] = <<BodyHashError, <<"could not parse jwt", "signature is invalid">>>>
    /\ w[r].status = StatusUnauthorized

\* ------------------------------------------------- NewPublisher claims
\* the positions in the caller's options of the options built by kind
Positions(kind) == {i \in DOMAIN nargs.opts : nargs.opts[i].kind = kind}

\* the last caller option of the kind, or the default when there is none
Latest(kind, default) ==
  IF Positions(kind) = {} THEN default
  ELSE nargs.opts[CHOOSE i \in Positions(kind) : \A j \in Positions(kind) : j <= i]

\* what the options come to: defaults first, the caller's after, the later
\* overriding the earlier
Effective ==
  [token |-> Latest("WithQStashToken", WithQStashToken(nargs.env)).str,
   url |-> Latest("WithQStashURL", WithQStashURL(DefaultURL)).url,
   topic |-> nargs.topic,
   client |-> [Timeout |-> Latest("WithClientTimeout", WithClientTimeout(Second)).dur,
               MaxBackOff |-> Latest("WithClientMaxBackOff", WithClientMaxBackOff(Second)).dur,
               MinBackOff |-> Latest("WithClientMinBackOff",
                                    WithClientMinBackOff(200 * Millisecond)).dur,
               Retries |-> Latest("WithClientRetries", WithClientRetries(5)).n],
   verbose |-> Positions("WithVerbose") # {}]

\* the constraints on what the options come to
Constraints ==
  /\ Effective.token # ""
  /\ Effective.url # <<>>
  /\ Effective.topic # ""
  /\ Effective.client.Timeout >= Millisecond
  /\ Effective.client.Retries >= 0
  /\ Effective.client.MinBackOff >= Millisecond
  /\ Effective.client.MaxBackOff >= Millisecond
  /\ Effective.client.MinBackOff <= Effective.client.MaxBackOff

\* C20: NewPublisher returns a Publisher exactly when token, URL and topic are
\* non-empty, the timeout is >= 1ms, Retries >= 0, MinBackOff >= 1ms,
\* MaxBackOff >= 1ms and MinBackOff <= MaxBackOff, for the values that the
\* defaults overridden by the caller's options in order come to; the Publisher
\* holds those values, so 0 < MinBackOff <= MaxBackOff and Retries >= 0; with
\* any constraint violated it returns an error and no Publisher.
C20_NewPublisherValidates ==
  npub.called =>
    /\ (npub.err = NoErr) <=> Constraints
    /\ npub.err = NoErr =>
         /\ ~npub.pub.nil
         /\ [token |-> npub.pub.token, url |-> npub.pub.url, topic |-> npub.pub.topic,
             client |-> npub.pub.client, verbose |-> npub.pub.verbose] = Effective
         /\ 0 < npub.pub.client.MinBackOff
         /\ npub.pub.client.MinBackOff <= npub.pub.client.MaxBackOff
         /\ npub.pub.client.Retries >= 0
    /\ npub.err # NoErr => npub.pub = NoPublisher

\* C20's case: of two minimum back offs, the first above the default maximum,
\* the second was taken and a Publisher built
C20_Witness ==
  /\ npub.called
  /\ npub.err = NoErr
  /\ nargs.opts = <<WithClientMinBackOff(2 * Second), WithClientMinBackOff(Millisecond)>>
  /\ npub.pub.client.MinBackOff = Millisecond
  /\ npub.pub.client.MaxBackOff = Second

\* ------------------------------------------------ Receiver ordering claims
\* the stages of one handler run, in the order of receiver.go:38-74
Stage(pc) ==
  CASE pc = "idle" -> 0
    [] pc = "read" -> 1
    [] pc = "verify" -> 2
    [] pc = "parse" -> 3
    [] pc = "call" -> 4
    [] pc = "callback" -> 5
    [] pc = "check" -> 6
    [] pc = "done" -> 7

\* the 422 of request r is written in this step
Writes422(r) ==
  /\ Len(w'[r].calls) = Len(w[r].calls) + 1
  /\ w'[r].calls[Len(w'[r].calls)] = StatusUnprocessableEntity

\* C21: within one request the handler only moves forward through read,
\* verify, callback, check, respond; the callback is invoked at most once, only
\* after the whole body was read and a verification succeeded on it, and the
\* 422 is decided only after the callback has returned (or when there is none).
C21_HandlerOrder ==
  /\ [][\A r \in Reqs :
          /\ Stage(rpc'[r]) >= Stage(rpc[r])
          /\ cbCalls'[r] # cbCalls[r] =>
               /\ cbCalls[r] = 0 /\ cbCalls'[r] = 1
               /\ Stage(rpc[r]) = 4 /\ Stage(rpc'[r]) = 5
               /\ body[r] = inReq[r].body
               /\ PassedCurrent(r) \/ PassedNext(r)
          /\ Writes422(r) =>
               /\ Stage(rpc[r]) = 6 /\ Stage(rpc'[r]) = 7
               /\ hasCallback => cbCalls[r] = 1]_vars
  /\ [](\A r \in Reqs :
          /\ cbCalls[r] <= 1
          /\ cbCalls[r] = 1 =>
               (Stage(rpc[r]) >= 5 /\ body[r] = inReq[r].body
                  /\ (PassedCurrent(r) \/ PassedNext(r)) /\ m[r].bound)
          /\ Stage(rpc[r]) \in 2..6 => w[r].calls = SelectSeq(w[r].calls, LAMBDA c : c = StatusOK))

\* C21's case: the callback ran once without acknowledging and the 422 followed
C21_Witness ==
  \E r \in Reqs :
    /\ rpc[r] = "done"
    /\ cbCalls[r] = 1
    /\ ackCalls[r] = 0
    /\ w[r].calls = <<StatusUnprocessableEntity>>

\* ------------------------------------------------ more Transport claims
\* C22: the transport sleeps only between attempts: when it returns, the
\* sleeps of the call number at most its sends minus one, so none follows the
\* final attempt and none a successful one.
C22_SleepsBetweenAttempts ==
  /\ TransportReturned => Len(sleeps) <= Len(sends) - 1
  /\ InTransport => Len(sleeps) <= Len(sends)
  /\ (sends # <<>> /\ ~sends[Len(sends)].failed) => Len(sleeps) = Len(sends) - 1


\* the caller's options hold an option of this kind
HasOption(opts, kind) == \E i \in DOMAIN opts : opts[i].kind = kind

\* C23: PublishWithDelay(ctx, m, d, opts...) does what Publish(ctx, m, opts...,
\* WithDelay(d)) does and PublishWithSchedule(ctx, m, s, opts...) what
\* Publish(ctx, m, opts..., WithSchedule(s)) does: the argument overrides a
\* delay or schedule among opts, the request carries Upstash-Delay exactly when
\* d > 0, then with the value of d, and Upstash-Schedule exactly when s is not
\* empty, then with the value s.
C23_ConvenienceMethods ==
  /\ [][(PublishStep /\ pcall'.fn = "PublishWithDelay") =>
          /\ Publish(popts \o <<OptDelay(pcall'.delay)>>)
          /\ req' # NoRequest =>
                /\ Carries(req'.Header, HDelay) <=> pcall'.delay > 0
                /\ pcall'.delay > 0 =>
                     HeaderGet(req'.Header, HDelay) = DurationString(pcall'.delay)]_vars
  /\ [][(PublishStep /\ pcall'.fn = "PublishWithSchedule") =>
          /\ Publish(popts \o <<OptSchedule(pcall'.schedule)>>)
          /\ req' # NoRequest =>
                /\ Carries(req'.Header, HSchedule) <=> pcall'.schedule # ""
                /\ pcall'.schedule # "" =>
                     HeaderGet(req'.Header, HSchedule) = <<pcall'.schedule>>]_vars

\* PublishWithDelay with a delay of 2 over options that hold a delay of 1 has
\* sent a request whose Upstash-Delay is that of the argument
C23_Witness ==
  /\ pcall.fn = "PublishWithDelay"
  /\ pcall.delay = 2
  /\ HasOption(popts, "delay")
  /\ PubOptions.Delay = 1
  /\ sends # <<>>
  /\ HeaderGet(sends[1].hdr, HDelay) = DurationString(2)



\* the integer a decimal numeral denotes
IntegerValue(s) ==
  IF s[1] = "-" THEN -AtoiDigits(Unsigned(s)) ELSE AtoiDigits(Unsigned(s))

\* the handler of request r is about to call the callback, or is inside it
\* before any Ack
AtCallbackEntry(r) ==
  \/ rpc[r] = "call"
  \/ rpc[r] = "callback" /\ ackCalls[r] = 0

\* C24: the Message given to the callback has the identifier of the
\* Upstash-Message-Id header, all the headers of the request, the body that was
\* verified, an acknowledgment flag that is false, and Retried equal to the
\* integer the Upstash-Retried header denotes, 0 when the header is absent or
\* does not denote an integer (or, read generously, does not fit an int).
C24_MessageAtCallback ==
  \A r \in Reqs :
    AtCallbackEntry(r) =>
      /\ m[r].ID = inReq[r].id
      /\ m[r].Headers = [sig |-> inReq[r].sig, id |-> inReq[r].id,
                         retried |-> inReq[r].retried]
      /\ m[r].Body = body[r]
      /\ m[r].Body = inReq[r].body
      /\ ~m[r].isAcknowledged
      /\ IF ~IsNumeral(inReq[r].retried) THEN m[r].Retried = 0
         ELSE \/ m[r].Retried = IntegerValue(inReq[r].retried)
              \/ /\ IntegerValue(inReq[r].retried) \notin MinInt..MaxInt
                 /\ m[r].Retried = 0



\* what belongs to the handling of request r
Local(r) == <<rpc[r], body[r], verr[r], m[r], w[r], cbCalls[r], ackCalls[r]>>

\* the status the handler of r ends with, from what is r's own: whether its
\* body could be read, its token and body against the keys, and whether its
\* callback acknowledged
OwnStatus(r) ==
  LET e1 == verify(inReq[r].body, inReq[r].sig, signingKey, now)
      e2 == verify(inReq[r].body, inReq[r].sig, nextSigningKey, now)
  IN IF verr[r] = <<>> THEN StatusInternalServerError
     ELSE IF ~VerifyOutcome(e1, e2)[1] THEN StatusUnauthorized
     ELSE IF ackCalls[r] > 0 THEN StatusOK
     ELSE StatusUnprocessableEntity

\* C25: requests handled at the same time by one Receiver are independent: a
\* step of one handler changes nothing of another request (an Ack sets no flag
\* and writes no status but its own request's) and never the signing keys;
\* every request ends with the status its own token, body and callback
\* determine, and its callback runs exactly when its own verification passed.
C25_RequestsIndependent ==
  /\ [][/\ \E r \in Reqs : \A q \in Reqs \ {r} : Local(q)' = Local(q)
        /\ signingKey' = signingKey
        /\ nextSigningKey' = nextSigningKey]_vars
  /\ [](\A r \in Reqs :
          /\ rpc[r] = "done" => w[r].status = OwnStatus(r)
          /\ m[r].isAcknowledged <=> ackCalls[r] > 0
          /\ (w[r].status = StatusOK) <=> ackCalls[r] > 0
          /\ rpc[r] = "done" =>
               (cbCalls[r] = 1 <=> (hasCallback /\ w[r].status \in {StatusOK,
                                                     StatusUnprocessableEntity})))

\* two requests in flight: one was acknowledged by its callback and answered
\* 200 while the other, whose callback has not acknowledged, is still inside
\* its callback
C25_Witness ==
  \E r, q \in Reqs :
    /\ r # q
    /\ rpc[r] = "done" /\ w[r].status = StatusOK /\ ackCalls[r] = 1
    /\ rpc[q] = "callback" /\ ackCalls[q] = 0
    /\ ~m[q].isAcknowledged /\ w[q].status = 0



\* C26: every attempt of one Publish call finds the whole body of the message
\* to send: what attempt k > 1 has to read is what attempt 1 had, the body of
\* the message.
C26_CompletePayload ==
  \A k \in DOMAIN sends :
    /\ sends[k].avail = sends[1].avail
    /\ sends[k].avail = pm0.Body

\* C27: all the attempts of one Publish call carry the same headers, those of
\* the request Publish built, with the same Upstash-Deduplication-ID when there
\* is one; the generator is called at most once in a Publish call, when
\* Publish is entered, and never by a step of the transport.
C27_SameHeadersEveryAttempt ==
  /\ [][/\ uuidCalls' # uuidCalls => (PublishStep /\ uuidCalls' = uuidCalls + 1)
        /\ ~PublishStep => req'.Header = req.Header]_vars
  /\ [](\A i, j \in DOMAIN sends :
          /\ sends[i].hdr = sends[j].hdr
          /\ sends[i].hdr = req.Header
          /\ HeaderGet(sends[i].hdr, HDeduplicationID)
               = HeaderGet(sends[j].hdr, HDeduplicationID))

\* a Publish that generated its identifier made two attempts, the first of
\* which failed, both under the generated identifier
C27_Witness ==
  /\ Len(sends) = 2
  /\ sends[1].failed
  /\ pm0.ID = ""
  /\ uuidCalls = 1
  /\ HeaderGet(sends[1].hdr, HDeduplicationID) = <<uuidOut.id>>
  /\ HeaderGet(sends[2].hdr, HDeduplicationID) = <<uuidOut.id>>



\* the latest Publish has returned success
Succeeded1 == pubs >= 1 /\ ppc = "returned" /\ perr = NoError

\* the errors with which Publish turns a message away before the transport: the
\* validation of the header prefix and the conflict of a custom identifier
\* with content-based deduplication
Rejections ==
  {"headers must start with 'Upstash-Forward-'",
   "you cannot set 'content based deduplication' and pass a custom deduplication id"}

\* C28: after a Publish of a message succeeded, a second Publish of the same
\* message value under the same options is not turned away before the
\* transport, neither by the validation of the headers nor by the conflict
\* check.
C28_Repeatable ==
  [][(Succeeded1 /\ PublishStep) => perr'.msg \notin Rejections]_vars



\* the handler of r gave up at the reading of the body: no verification ran
ReadFailed(r) == verr[r] = <<>>

\* the token of r verifies against neither key over the body that was read
VerificationFailed(r) ==
  /\ ~ReadFailed(r)
  /\ ~VerifyOK(body[r], inReq[r].sig, signingKey, now)
  /\ ~VerifyOK(body[r], inReq[r].sig, nextSigningKey, now)

\* C29: when the callback calls Ack at most once, a handled request has had
\* exactly one status written, one of 200, 401, 422, 500: 500 exactly when the
\* body could not be read (and then no verification and no callback ran), 401
\* exactly when verification failed, 200 exactly when the callback
\* acknowledged, 422 in every other case.
C29_ExactlyOneStatus ==
  \A r \in Reqs :
    (rpc[r] = "done" /\ ackCalls[r] <= 1) =>
      /\ Len(w[r].calls) = 1
      /\ w[r].status = w[r].calls[1]
      /\ w[r].status \in {StatusOK, StatusUnauthorized, StatusUnprocessableEntity,
                          StatusInternalServerError}
      /\ (w[r].status = StatusInternalServerError) <=> ReadFailed(r)
      /\ ReadFailed(r) => cbCalls[r] = 0
      /\ (w[r].status = StatusUnauthorized) <=> VerificationFailed(r)
      /\ (w[r].status = StatusOK) <=> m[r].isAcknowledged
      /\ (w[r].status = StatusUnprocessableEntity)
           <=> (~ReadFailed(r) /\ ~VerificationFailed(r) /\ ~m[r].isAcknowledged)


====
